---- MODULE Spec2Model ----
(***************************************************************************)
(* Canopy Height Modeling using GEDI & Sentinel-2                          *)
(* (src/gee-chm-gedi-sentinel2.js).                                        *)
(*                                                                         *)
(* The script is one straight-line program.  Each statement that builds a  *)
(* value is one action; pc names the statement about to run.  The program  *)
(* is checked in slices, one specification per section of the script, each *)
(* slice starting from every input its section can receive.                *)
(*                                                                         *)
(* A pixel value carries a mask bit (1 = valid, 0 = masked / no data) and  *)
(* a rational num/den.  A raster band is a function from pixel ids to      *)
(* pixel values, an image a function from band names to bands.  A pixel id *)
(* names a location: the centre of a 25 m lidar pixel and the 10 m optical *)
(* pixel around it.  Dates are YYYYMMDD integers.                          *)
(***************************************************************************)
EXTENDS Integers, Sequences, FiniteSets, TLC

VARIABLES
    pc,             \* the statement of the script about to run
    rawCollection,  \* ee.ImageCollection('LARSE/GEDI/GEDI02_A_002_MONTHLY')
    gedi,           \* var gedi        (line 56)
    gediMedian,     \* var gediMedian  (line 73)
    gediSamples,    \* var gediSamples (line 77)
    zeroDivision,   \* what the platform's division yields for a zero divisor
    image,          \* var image   (line 29)
    ndvi,           \* var ndvi    (line 92)
    nbr,            \* var nbr     (line 99)
    ndmi,           \* var ndmi    (line 106)
    stacked,        \* var stacked (line 112)
    stackedGEDI,    \* var stackedGEDI     (line 118)
    S2samples,      \* var S2samples       (line 128)
    validFeatures,  \* var validFeatures   (line 149)
    withRandom,     \* var withRandom      (line 152)
    trainingSamples,\* var trainingSamples (line 155)
    testingSamples, \* var testingSamples  (line 158)
    prng,           \* the platform's pseudo-random generator: seed, feature id -> tenths
    run,            \* which run of the script this is (1 or 2)
    firstRun,       \* the split the first run produced
    console,        \* what print() has written
    training,       \* var training    (line 191)
    RFmodel,        \* var RFmodel     (line 213)
    prediction,     \* var prediction  (line 233)
    testing,        \* var testing     (line 241)
    testPred,       \* var testPred    (line 247)
    rmse,           \* var rmse        (line 250)
    rmseVal,        \* var rmseVal     (line 257)
    mae,            \* var mae         (line 260)
    maeVal,         \* var maeVal      (line 267)
    evalSamples,    \* var evalSamples (line 343)
    tasks           \* the export tasks: task name -> status

gediVars == << rawCollection, gedi, gediMedian, gediSamples >>

indexVars == << zeroDivision, image, ndvi, nbr, ndmi, stacked >>

splitVars ==
    << stackedGEDI, S2samples, validFeatures, withRandom, trainingSamples,
       testingSamples >>

runVars == << prng, run, firstRun >>

evalVars ==
    << training, RFmodel, prediction, testing, testPred, rmse, rmseVal, mae,
       maeVal, evalSamples >>

vars == << pc, gediVars, indexVars, splitVars, runVars, console, evalVars, tasks >>

(***************************************************************************)
(* Bounds and input domains                                                *)
(***************************************************************************)
\* number of monthly images in the lidar collection
NImages == 2

\* number of sample points inside the region of interest
NPoints == 3

\* the region of interest: the locations inside the polygon `table`
ROI == 1..NPoints

\* all locations: those of the region and one outside it
Pixels == 1..(NPoints + 1)

\* the locations whose inputs vary in the raster slices; the others hold
\* fixed good data
Varied == {1, 2}

\* filterDate('2019-06-01', '2019-10-01')
StartDate == 20190601
EndDate == 20191001

\* acquisition dates around both ends of the window
Dates == {20190531, 20190601, 20190930, 20191001}

(***************************************************************************)
(* Pixels, bands, images                                                   *)
(***************************************************************************)
\* a valid pixel holding the integer n
Val(n) == [mask |-> 1, num |-> n, den |-> 1, nan |-> FALSE]

\* a valid pixel holding n / d, d # 0
Ratio(n, d) == [mask |-> 1, num |-> n, den |-> d, nan |-> FALSE]

\* a valid pixel holding NaN
NaN == [mask |-> 1, num |-> 0, den |-> 1, nan |-> TRUE]

\* a masked pixel
Masked == [mask |-> 0, num |-> 0, den |-> 1, nan |-> FALSE]

\* an image with no bands
NoImage == [b \in {} |-> 0]

\* image.select(names)
select(img, names) == [b \in names \cap DOMAIN img |-> img[b]]

\* band.eq(c): 1 where the band equals c, else 0; masked where the band is
eq(band, c) ==
    [p \in Pixels |->
        IF band[p].mask = 0 THEN Masked
        ELSE IF band[p].num = c * band[p].den /\ ~band[p].nan THEN Val(1) ELSE Val(0)]

\* image.updateMask(m): a pixel stays valid where it was valid and m is
\* valid and non-zero
updateMask(img, m) ==
    [b \in DOMAIN img |->
        [p \in Pixels |->
            IF img[b][p].mask = 1 /\ m[p].mask = 1 /\ m[p].num # 0
            THEN img[b][p] ELSE Masked]]

\* image.clip(region): pixels outside the region are masked
clip(img, region) ==
    [b \in DOMAIN img |->
        [p \in Pixels |-> IF p \in region THEN img[b][p] ELSE Masked]]

\* image.addBands(other)
addBands(img, other) ==
    [b \in DOMAIN img \cup DOMAIN other |->
        IF b \in DOMAIN img THEN img[b] ELSE other[b]]

\* image.rename(name) of a single-band image
rename(band, name) == [b \in {name} |-> band]

\* collection.map(im => im.clip(region))
mapClip(coll, region) ==
    [k \in 1..Len(coll) |-> [coll[k] EXCEPT !.bands = clip(coll[k].bands, region)]]

\* collection.select(names)
mapSelect(coll, names) ==
    [k \in 1..Len(coll) |-> [coll[k] EXCEPT !.bands = select(coll[k].bands, names)]]

\* the ascending sequence of a set of integers
RECURSIVE SortedSeq(_)
SortedSeq(S) ==
    IF S = {} THEN << >>
    ELSE LET m == CHOOSE x \in S : \A y \in S : x <= y
         IN << m >> \o SortedSeq(S \ {m})

\* a feature: an id, a geometry (the set holding the location of a point, or
\* the empty set for none) and properties, a function from the names of its
\* non-null properties to their values
Feature(i, geom, props) == [id |-> i, geometry |-> geom, props |-> props]

\* null
Null == << >>

\* print(label, value): a line of the console; evaluating a value that is an
\* error shows the error instead
print(label, value, isError) == [label |-> label, value |-> value, error |-> isError]

(***************************************************************************)
(* 3. GEDI Data Processing                                                 *)
(***************************************************************************)
\* the rh95 value of image i at location p: distinct even heights, so that
\* a median names the observations it was taken from
rawHeight(i, p) == 10 * i + 2 * p

\* one monthly image of the raw collection; outside Varied the flags are good
RawImage(i, d, q, g) ==
    [id |-> i, date |-> d,
     bands |->
        [b \in {"quality_flag", "degrade_flag", "rh95"} |->
            [p \in Pixels |->
                CASE b = "quality_flag" -> Val(IF p \in Varied THEN q[p] ELSE 1)
                  [] b = "degrade_flag" -> Val(IF p \in Varied THEN g[p] ELSE 0)
                  [] OTHER -> Val(rawHeight(i, p))]]]

\* every raw collection of n images
RawCollections(n) ==
    { [i \in 1..n |-> RawImage(i, d[i], q[i], g[i])] :
        d \in [1..n -> Dates],
        q \in [1..n -> [Varied -> {0, 1}]],
        g \in [1..n -> [Varied -> {0, 1}]] }

\* var qualityMask
qualityMask(im) ==
    [im EXCEPT !.bands =
        updateMask(updateMask(im.bands, eq(im.bands["quality_flag"], 1)),
                   eq(im.bands["degrade_flag"], 0))]

\* collection.map(qualityMask)
mapQualityMask(coll) == [k \in 1..Len(coll) |-> qualityMask(coll[k])]

\* a date filter whose end date is inclusive
filterDateInclusiveEnd(coll, start, end) ==
    SelectSeq(coll, LAMBDA im : start <= im.date /\ im.date <= end)

\* collection.filterDate(start, end): start inclusive, end exclusive
filterDate(coll, start, end) ==
    SelectSeq(coll, LAMBDA im : start <= im.date /\ im.date < end)

\* the bands named by ['rh.*', 'lat_highestreturn', 'lon_highestreturn']
RhBands == {"rh95"}

\* the median of a non-empty set of distinct even integers: the middle one,
\* or the mean of the two middle ones
Median(S) ==
    LET s == SortedSeq(S)
        n == Len(s)
    IN IF n % 2 = 1 THEN s[(n + 1) \div 2]
       ELSE (s[n \div 2] + s[n \div 2 + 1]) \div 2

\* the valid values of band b of a collection at location p
ValidAt(coll, b, p) ==
    { coll[k].bands[b][p].num :
        k \in { j \in 1..Len(coll) : coll[j].bands[b][p].mask = 1 } }

\* collection.median(): per pixel, the median of the valid values; masked
\* where no image is valid
median(coll, b) ==
    [c \in {b} |->
        [p \in Pixels |->
            IF ValidAt(coll, b, p) = {} THEN Masked
            ELSE Val(Median(ValidAt(coll, b, p)))]]

\* image.sample({region: ROI, geometries: true, scale: 25}): one point per
\* pixel of the region at which every band is valid
sample(img, region) ==
    LET pts == SortedSeq({ p \in region : \A b \in DOMAIN img : img[b][p].mask = 1 })
    IN [k \in 1..Len(pts) |->
            Feature(pts[k], {pts[k]}, [b \in DOMAIN img |-> img[b][pts[k]]])]

GediIdle ==
    /\ rawCollection = << >>
    /\ gedi = << >>
    /\ gediMedian = NoImage
    /\ gediSamples = << >>

\* var gedi
BuildGedi ==
    /\ pc = "gedi"
    /\ gedi' =
        mapSelect(mapClip(filterDate(mapQualityMask(rawCollection), StartDate, EndDate),
                          ROI),
                  RhBands)
    /\ pc' = "gediMedian"
    /\ UNCHANGED << rawCollection, gediMedian, gediSamples, indexVars, splitVars, runVars, console, evalVars, tasks >>

\* var gedi95, var gediMedian
BuildGediMedian ==
    /\ pc = "gediMedian"
    /\ gediMedian' =
        median(mapSelect(gedi, {"rh95"}), "rh95")
    /\ pc' = "gediSamples"
    /\ UNCHANGED << rawCollection, gedi, gediSamples, indexVars, splitVars, runVars, console, evalVars, tasks >>

\* var gediSamples
BuildGediSamples ==
    /\ pc = "gediSamples"
    /\ gediSamples' = sample(gediMedian, ROI)
    /\ pc' = "ndvi"
    /\ UNCHANGED << rawCollection, gedi, gediMedian, indexVars, splitVars, runVars, console, evalVars, tasks >>

(***************************************************************************)
(* 4. Vegetation Indices Calculation                                       *)
(***************************************************************************)
\* the bands of the composite
CompositeBands ==
    {"B2_median", "B3_median", "B4_median", "B5_median", "B7_median",
     "B8_median", "B11_median", "B12_median"}

\* the bands the three indices read
IndexInputs == {"B4_median", "B8_median", "B11_median", "B12_median"}

\* what a division by zero may yield: 0 (as ee.Image.divide documents), NaN,
\* or a masked pixel; the script names none of them
ZeroDivisions == {"zero", "nan", "masked"}

\* a / b at one pixel
divide(a, b, onZero) ==
    IF a.mask = 0 \/ b.mask = 0 THEN Masked
    ELSE IF b.num = 0
         THEN CASE onZero = "zero" -> Val(0)
                [] onZero = "nan" -> NaN
                [] OTHER -> Masked
         ELSE Ratio(a.num, b.num)

\* a - b and a + b at one pixel of integer bands
subtract(a, b) == IF a.mask = 0 \/ b.mask = 0 THEN Masked ELSE Val(a.num - b.num)

add(a, b) == IF a.mask = 0 \/ b.mask = 0 THEN Masked ELSE Val(a.num + b.num)

\* image.expression('((A - B) / (A + B))', {A: ..., B: ...})
normalizedDifference(A, B, onZero) ==
    [p \in Pixels |-> divide(subtract(A[p], B[p]), add(A[p], B[p]), onZero)]

\* a composite: the index inputs vary on Varied, every other pixel holds 1
Composite(f) ==
    [b \in CompositeBands |->
        [p \in Pixels |->
            IF b \in IndexInputs /\ p \in Varied THEN f[b][p] ELSE Val(1)]]

Composites ==
    { Composite(f) : f \in [IndexInputs -> [Varied -> {Masked, Val(0), Val(1)}]] }

\* var ndvi, var nbr, var ndmi, var stacked as values
ndviOf(img, onZero) ==
    rename(normalizedDifference(img["B8_median"], img["B4_median"], onZero), "ndvi")

nbrOf(img, onZero) ==
    rename(normalizedDifference(img["B8_median"], img["B11_median"], onZero), "nbr")

ndmiOf(img, onZero) ==
    rename(normalizedDifference(img["B8_median"], img["B12_median"], onZero), "ndmi")

stackedOf(img, i1, i2, i3) == addBands(addBands(addBands(img, i1), i2), i3)

IndexIdle ==
    /\ zeroDivision = "zero"
    /\ image = NoImage
    /\ ndvi = NoImage
    /\ nbr = NoImage
    /\ ndmi = NoImage
    /\ stacked = NoImage

\* the state the index section leaves for composite img
IndexDone(img) ==
    /\ zeroDivision = "zero"
    /\ image = img
    /\ ndvi = ndviOf(img, "zero")
    /\ nbr = nbrOf(img, "zero")
    /\ ndmi = ndmiOf(img, "zero")
    /\ stacked = stackedOf(img, ndvi, nbr, ndmi)

\* var ndvi
BuildNdvi ==
    /\ pc = "ndvi"
    /\ ndvi' = ndviOf(image, zeroDivision)
    /\ pc' = "nbr"
    /\ UNCHANGED << zeroDivision, image, nbr, ndmi, stacked, gediVars, splitVars, runVars, console, evalVars, tasks >>

\* var nbr
BuildNbr ==
    /\ pc = "nbr"
    /\ nbr' = nbrOf(image, zeroDivision)
    /\ pc' = "ndmi"
    /\ UNCHANGED << zeroDivision, image, ndvi, ndmi, stacked, gediVars, splitVars, runVars, console, evalVars, tasks >>

\* var ndmi
BuildNdmi ==
    /\ pc = "ndmi"
    /\ ndmi' = ndmiOf(image, zeroDivision)
    /\ pc' = "stacked"
    /\ UNCHANGED << zeroDivision, image, ndvi, nbr, stacked, gediVars, splitVars, runVars, console, evalVars, tasks >>

\* var stacked
BuildStacked ==
    /\ pc = "stacked"
    /\ stacked' = stackedOf(image, ndvi, nbr, ndmi)
    /\ pc' = "stackedGEDI"
    /\ UNCHANGED << zeroDivision, image, ndvi, nbr, ndmi, gediVars, splitVars, runVars, console, evalVars, tasks >>

(***************************************************************************)
(* 5. Sample Sentinel-2 Data at GEDI Points                                *)
(***************************************************************************)
\* the location of a point feature
Loc(f) == CHOOSE p \in f.geometry : TRUE

\* image.reduceRegion({reducer: ee.Reducer.first(), geometry: point}): the
\* value of every band at the point; a band with no value there is null,
\* and a null entry is no property of the feature made from the dictionary
reduceRegionFirst(img, p) ==
    [b \in { c \in DOMAIN img : img[c][p].mask = 1 } |-> img[b][p]]

\* an extraction that keeps only the points at which every band has a value
S2samplesDropIncomplete(gs, sg) ==
    LET kept == SelectSeq(gs, LAMBDA f : \A b \in DOMAIN sg : sg[b][Loc(f)].mask = 1)
    IN [k \in 1..Len(kept) |->
            Feature(kept[k].id, kept[k].geometry, reduceRegionFirst(sg, Loc(kept[k])))]

\* var S2samples: gediSamples.map(feature => ee.Feature(geometry, dictionary))
S2samplesOf(gs, sg) ==
    [k \in 1..Len(gs) |->
        Feature(gs[k].id, gs[k].geometry, reduceRegionFirst(sg, Loc(gs[k])))]

(***************************************************************************)
(* 6. Prepare Training and Testing Samples (70/30 split)                   *)
(***************************************************************************)
\* the value of a property that may be null
get(f, name) == IF name \in DOMAIN f.props THEN << f.props[name] >> ELSE Null

\* collection.filter(ee.Filter.neq(name, value))
filterNeq(coll, name, value) == SelectSeq(coll, LAMBDA f : get(f, name) # value)

\* collection.filter(ee.Filter.lt(name, n/d)), .lte, .gte; a feature
\* without the property matches none of them
filterLt(coll, name, n, d) ==
    SelectSeq(coll, LAMBDA f :
        /\ name \in DOMAIN f.props
        /\ f.props[name].num * d < n * f.props[name].den)

filterLte(coll, name, n, d) ==
    SelectSeq(coll, LAMBDA f :
        /\ name \in DOMAIN f.props
        /\ f.props[name].num * d <= n * f.props[name].den)

filterGte(coll, name, n, d) ==
    SelectSeq(coll, LAMBDA f :
        /\ name \in DOMAIN f.props
        /\ f.props[name].num * d >= n * f.props[name].den)

\* the split point 0.7 = SplitNum / SplitDen
SplitNum == 7
SplitDen == 10

\* the seeds the generator is modelled for, and the values it may give, in
\* tenths: just below the split point and exactly on it
Seeds == {0, 1}
RandomTenths == {6, 7}

\* the seed randomColumn uses when the script passes none
DefaultSeed == 0

\* a seed taken from the run, as a clock would give
randomColumnSeedFromRun(r) == r - 1

\* the seed of validFeatures.randomColumn('random') in run r: none is
\* passed, so the default
randomColumnSeed(r) == DefaultSeed

\* collection.randomColumn(name, seed): a deterministic value in [0, 1) per
\* feature, a function of the seed and the feature's id
randomColumn(coll, name, seed) ==
    [k \in 1..Len(coll) |->
        [coll[k] EXCEPT !.props =
            [n \in DOMAIN coll[k].props \cup {name} |->
                IF n = name THEN Ratio(prng[seed][coll[k].id], 10)
                ELSE coll[k].props[n]]]]

\* a filter that keeps everything
validFeaturesUnfiltered(samples) == samples

\* var validFeatures
validFeaturesOf(samples) == filterNeq(samples, "rh95", Null)

\* a training filter that also takes the split point itself
trainingSamplesInclusive(wr) == filterLte(wr, "random", SplitNum, SplitDen)

\* var trainingSamples
trainingSamplesOf(wr) == filterLt(wr, "random", SplitNum, SplitDen)

\* var testingSamples
testingSamplesOf(wr) == filterGte(wr, "random", SplitNum, SplitDen)

SplitIdle ==
    /\ stackedGEDI = NoImage
    /\ S2samples = << >>
    /\ validFeatures = << >>
    /\ withRandom = << >>
    /\ trainingSamples = << >>
    /\ testingSamples = << >>

\* a generator that gives the split point for every feature and seed
FixedPrng == [s \in Seeds |-> [p \in ROI |-> SplitNum]]

RunIdle ==
    /\ prng = FixedPrng
    /\ run = 1
    /\ firstRun = Null

\* var stackedGEDI
BuildStackedGEDI ==
    /\ pc = "stackedGEDI"
    /\ stackedGEDI' = addBands(gediMedian, stacked)
    /\ pc' = "S2samples"
    /\ UNCHANGED << S2samples, validFeatures, withRandom, trainingSamples,
                    testingSamples, gediVars, indexVars, runVars, console, evalVars, tasks >>

\* var S2samples
BuildS2samples ==
    /\ pc = "S2samples"
    /\ S2samples' = S2samplesOf(gediSamples, stackedGEDI)
    /\ pc' = "validFeatures"
    /\ UNCHANGED << stackedGEDI, validFeatures, withRandom, trainingSamples,
                    testingSamples, gediVars, indexVars, runVars, console, evalVars, tasks >>

\* var validFeatures
BuildValidFeatures ==
    /\ pc = "validFeatures"
    /\ validFeatures' = validFeaturesOf(S2samples)
    /\ pc' = "withRandom"
    /\ UNCHANGED << stackedGEDI, S2samples, withRandom, trainingSamples,
                    testingSamples, gediVars, indexVars, runVars, console, evalVars, tasks >>

\* var withRandom
BuildWithRandom ==
    /\ pc = "withRandom"
    /\ withRandom' = randomColumn(validFeatures, "random", randomColumnSeed(run))
    /\ pc' = "trainingSamples"
    /\ UNCHANGED << stackedGEDI, S2samples, validFeatures, trainingSamples,
                    testingSamples, gediVars, indexVars, runVars, console, evalVars, tasks >>

\* var trainingSamples
BuildTrainingSamples ==
    /\ pc = "trainingSamples"
    /\ trainingSamples' = trainingSamplesOf(withRandom)
    /\ pc' = "testingSamples"
    /\ UNCHANGED << stackedGEDI, S2samples, validFeatures, withRandom,
                    testingSamples, gediVars, indexVars, runVars, console, evalVars, tasks >>

\* var testingSamples, and the two print() calls after it
BuildTestingSamples ==
    /\ pc = "testingSamples"
    /\ testingSamples' = testingSamplesOf(withRandom)
    /\ console' = console \o
            << print("Training samples count:", Len(trainingSamples), FALSE),
               print("Testing samples count:", Len(testingSamples'), FALSE) >>
    /\ pc' = "exportTraining"
    /\ UNCHANGED << stackedGEDI, S2samples, validFeatures, withRandom,
                    trainingSamples, gediVars, indexVars, runVars, evalVars, tasks >>

\* the script is run a second time over the same assets
Rerun ==
    /\ pc = "exportTraining"
    /\ run = 1
    /\ firstRun' = [training |-> trainingSamples, testing |-> testingSamples]
    /\ run' = 2
    /\ validFeatures' = << >>
    /\ withRandom' = << >>
    /\ trainingSamples' = << >>
    /\ testingSamples' = << >>
    /\ console' = << >>
    /\ pc' = "validFeatures"
    /\ UNCHANGED << stackedGEDI, S2samples, prng, gediVars, indexVars, evalVars, tasks >>

(***************************************************************************)
(* 7. Train Random Forest Model, and the evaluation on the testing subset  *)
(***************************************************************************)
\* var inputBands
inputBands ==
    {"B2_median", "B3_median", "B4_median", "B5_median", "B7_median",
     "B8_median", "B11_median", "B12_median", "ndvi", "nbr", "ndmi"}

\* image.sampleRegions({collection, properties, scale}): one feature per
\* input feature at whose location every band of the image has a value,
\* without geometry, holding the band values and the named properties of the
\* input feature; a feature at a pixel with a masked band yields nothing
sampleRegions(img, coll, properties) ==
    LET kept == SelectSeq(coll, LAMBDA f : \A b \in DOMAIN img : img[b][Loc(f)].mask = 1)
    IN [k \in 1..Len(kept) |->
            Feature(kept[k].id, {},
                [n \in DOMAIN img \cup (properties \cap DOMAIN kept[k].props) |->
                    IF n \in DOMAIN img THEN img[n][Loc(kept[k])]
                    ELSE kept[k].props[n]])]

\* the heights a fitted forest may predict
Predictions == {4, 8}

\* the functions a fit may produce: a prediction per location (the feature
\* vector of a location is fixed by the composite)
Fits ==
    { [p \in Pixels |-> IF p \in ROI THEN f[p] ELSE 4] : f \in [ROI -> Predictions] }

\* no model
NoModel == Null

\* the rows a fit uses: the features that hold every named property
rowsOf(features, inputProperties, classProperty) ==
    Len(SelectSeq(features, LAMBDA r :
            inputProperties \cup {classProperty} \subseteq DOMAIN r.props))

\* classifier.train({features, inputProperties, classProperty}) with the
\* fit f; with no row the platform's fit fails, and whatever is computed
\* from the model is that error
train(features, inputProperties, classProperty, f) ==
    [rows |-> rowsOf(features, inputProperties, classProperty),
     predict |-> f,
     failed |-> rowsOf(features, inputProperties, classProperty) = 0]

\* image.classify(model): a prediction where every input band has a value;
\* nothing from a failed model
classifyImage(img, model) ==
    [b \in {"classification"} |->
        [p \in Pixels |->
            IF ~model.failed /\ \A c \in inputBands : c \in DOMAIN img /\ img[c][p].mask = 1
            THEN Val(model.predict[p]) ELSE Masked]]

\* collection.classify(model): every feature gets the property
\* 'classification' (a sampled feature's id is its location); nothing from
\* a failed model
classifyFeatures(coll, model) ==
    IF model.failed THEN << >>
    ELSE [k \in 1..Len(coll) |->
            [coll[k] EXCEPT !.props =
                [n \in DOMAIN coll[k].props \cup {"classification"} |->
                    IF n = "classification" THEN Val(model.predict[coll[k].id])
                    ELSE coll[k].props[n]]]]

\* collection.aggregate_array(name): the non-null values of the property
aggregate_array(coll, name) ==
    LET has == SelectSeq(coll, LAMBDA f : name \in DOMAIN f.props)
    IN [k \in 1..Len(has) |-> has[k].props[name]]

\* list.zip(other): pairs, as many as the shorter list has
zip(a, b) ==
    [k \in 1..(IF Len(a) <= Len(b) THEN Len(a) ELSE Len(b)) |-> << a[k], b[k] >>]

\* list.map(f)
mapList(l, f(_)) == [k \in 1..Len(l) |-> f(l[k])]

\* an error that is not squared
signedError(pair) == pair[2].num - pair[1].num

\* pred.subtract(obs).pow(2)
squaredError(pair) == (pair[2].num - pair[1].num) * (pair[2].num - pair[1].num)

\* pred.subtract(obs).abs()
absoluteError(pair) ==
    IF pair[2].num >= pair[1].num THEN pair[2].num - pair[1].num
    ELSE pair[1].num - pair[2].num

RECURSIVE SumSeq(_)
SumSeq(l) == IF l = << >> THEN 0 ELSE Head(l) + SumSeq(Tail(l))

\* list.reduce('mean'): the rational sum / length; null for an empty list
reduceMean(l) == IF l = << >> THEN Null ELSE [num |-> SumSeq(l), den |-> Len(l)]

\* ee.Number(x).sqrt(): kept as the square root of its radicand
sqrt(x) == IF x = Null THEN Null ELSE [sqrtOf |-> x]

\* the lists of squared and of absolute errors
rmseOf(tp) ==
    mapList(zip(aggregate_array(tp, "rh95"), aggregate_array(tp, "classification")),
            squaredError)

maeOf(tp) ==
    mapList(zip(aggregate_array(tp, "rh95"), aggregate_array(tp, "classification")),
            absoluteError)

EvalIdle ==
    /\ training = << >>
    /\ RFmodel = NoModel
    /\ prediction = NoImage
    /\ testing = << >>
    /\ testPred = << >>
    /\ rmse = << >>
    /\ rmseVal = Null
    /\ mae = << >>
    /\ maeVal = Null
    /\ evalSamples = << >>

(***************************************************************************)
(* Exports (sections 6, 9, 10)                                             *)
(***************************************************************************)
Artifacts == {"training", "testing", "chm", "eval"}

\* one task for every artifact
ExportTaskShared(a) == "GEDI_training_samples_NY_2019"

\* the description of the task each Export call creates
ExportTask(a) ==
    CASE a = "training" -> "GEDI_training_samples_NY_2019"
      [] a = "testing" -> "GEDI_testing_samples_NY_2019"
      [] a = "chm" -> "CHM_RF_NY_2019"
      [] OTHER -> "S2CHM_RF_NY_2019_eval"

NoTasks == [t \in {} |-> "UNSUBMITTED"]

\* Export.table.toDrive / Export.image.toDrive: a new task, not yet started
submit(ts, a) ==
    [t \in DOMAIN ts \cup {ExportTask(a)} |->
        IF t \in DOMAIN ts THEN ts[t] ELSE "UNSUBMITTED"]

\* Export.table.toDrive({collection: trainingSamples, ...})
SubmitTrainingExport ==
    /\ pc = "exportTraining"
    /\ tasks' = submit(tasks, "training")
    /\ pc' = "exportTesting"
    /\ UNCHANGED << gediVars, indexVars, splitVars, runVars, console, evalVars >>

\* Export.table.toDrive({collection: testingSamples, ...})
SubmitTestingExport ==
    /\ pc = "exportTesting"
    /\ tasks' = submit(tasks, "testing")
    /\ pc' = "training"
    /\ UNCHANGED << gediVars, indexVars, splitVars, runVars, console, evalVars >>

\* var training
BuildTraining ==
    /\ pc = "training"
    /\ training' = sampleRegions(stacked, trainingSamples, {"rh95"})
    /\ pc' = "RFmodel"
    /\ UNCHANGED << RFmodel, prediction, testing, testPred, rmse, rmseVal, mae,
                    maeVal, evalSamples, gediVars, indexVars, splitVars, runVars,
                    console, tasks >>

\* var RFmodel, var rfInfo, var featureImportance and their print() calls;
\* the script tests nothing before it trains
TrainRFmodel ==
    /\ pc = "RFmodel"
    /\ \E f \in Fits : RFmodel' = train(training, inputBands, "rh95", f)
    /\ console' = console \o
            << print("Random Forest Info:", RFmodel'.rows, RFmodel'.failed),
               print("Feature Importance:", RFmodel'.rows, RFmodel'.failed) >>
    /\ pc' = "prediction"
    /\ UNCHANGED << training, prediction, testing, testPred, rmse, rmseVal, mae,
                    maeVal, evalSamples, gediVars, indexVars, splitVars, runVars,
                    tasks >>

\* var prediction
BuildPrediction ==
    /\ pc = "prediction"
    /\ prediction' = clip(classifyImage(stacked, RFmodel), ROI)
    /\ pc' = "testing"
    /\ UNCHANGED << training, RFmodel, testing, testPred, rmse, rmseVal, mae,
                    maeVal, evalSamples, gediVars, indexVars, splitVars, runVars,
                    console, tasks >>

\* var testing
BuildTesting ==
    /\ pc = "testing"
    /\ testing' = sampleRegions(stacked, testingSamples, {"rh95"})
    /\ pc' = "testPred"
    /\ UNCHANGED << training, RFmodel, prediction, testPred, rmse, rmseVal, mae,
                    maeVal, evalSamples, gediVars, indexVars, splitVars, runVars,
                    console, tasks >>

\* var testPred
BuildTestPred ==
    /\ pc = "testPred"
    /\ testPred' = classifyFeatures(testing, RFmodel)
    /\ pc' = "rmse"
    /\ UNCHANGED << training, RFmodel, prediction, testing, rmse, rmseVal, mae,
                    maeVal, evalSamples, gediVars, indexVars, splitVars, runVars,
                    console, tasks >>

\* var rmse, var rmseVal and its print()
BuildRmse ==
    /\ pc = "rmse"
    /\ rmse' = rmseOf(testPred)
    /\ rmseVal' = sqrt(reduceMean(rmse'))
    /\ console' = Append(console, print("Testing RMSE (m):", rmseVal', rmseVal' = Null))
    /\ pc' = "mae"
    /\ UNCHANGED << training, RFmodel, prediction, testing, testPred, mae,
                    maeVal, evalSamples, gediVars, indexVars, splitVars, runVars,
                    tasks >>

\* var mae, var maeVal and its print(); the legend of section 8 is display only
BuildMae ==
    /\ pc = "mae"
    /\ mae' = maeOf(testPred)
    /\ maeVal' = reduceMean(mae')
    /\ console' = Append(console, print("Testing MAE (m):", maeVal', maeVal' = Null))
    /\ pc' = "exportCHM"
    /\ UNCHANGED << training, RFmodel, prediction, testing, testPred, rmse,
                    rmseVal, evalSamples, gediVars, indexVars, splitVars, runVars,
                    tasks >>

\* Export.image.toDrive({image: prediction, ...})
SubmitChmExport ==
    /\ pc = "exportCHM"
    /\ tasks' = submit(tasks, "chm")
    /\ pc' = "evalSamples"
    /\ UNCHANGED << gediVars, indexVars, splitVars, runVars, console, evalVars >>

\* var evalSamples
BuildEvalSamples ==
    /\ pc = "evalSamples"
    /\ evalSamples' = sampleRegions(prediction, testingSamples, {"rh95"})
    /\ pc' = "exportEval"
    /\ UNCHANGED << training, RFmodel, prediction, testing, testPred, rmse,
                    rmseVal, mae, maeVal, gediVars, indexVars, splitVars, runVars,
                    console, tasks >>

\* Export.table.toDrive({collection: evalSamples, ...})
SubmitEvalExport ==
    /\ pc = "exportEval"
    /\ tasks' = submit(tasks, "eval")
    /\ pc' = "done"
    /\ UNCHANGED << gediVars, indexVars, splitVars, runVars, console, evalVars >>

\* the life of a task once the script has ended: the operator starts it, the
\* platform runs it, and it ends written or failed; nothing leaves an end
\* state, and no step touches another task
step(ts, t, from, to) ==
    /\ t \in DOMAIN ts
    /\ ts[t] = from
    /\ tasks' = [ts EXCEPT ![t] = to]
    /\ UNCHANGED << pc, gediVars, indexVars, splitVars, runVars, console, evalVars >>

RunTask == pc = "done" /\ \E t \in DOMAIN tasks : step(tasks, t, "UNSUBMITTED", "READY")

StartTask == pc = "done" /\ \E t \in DOMAIN tasks : step(tasks, t, "READY", "RUNNING")

CompleteTask == pc = "done" /\ \E t \in DOMAIN tasks : step(tasks, t, "RUNNING", "COMPLETED")

FailTask == pc = "done" /\ \E t \in DOMAIN tasks : step(tasks, t, "RUNNING", "FAILED")

(***************************************************************************)
(* The slices                                                              *)
(***************************************************************************)
\* --- section 3: from the raw collection to the sample points
InitGedi ==
    /\ pc = "gedi"
    /\ rawCollection \in RawCollections(NImages)
    /\ gedi = << >>
    /\ gediMedian = NoImage
    /\ gediSamples = << >>
    /\ IndexIdle
    /\ SplitIdle
    /\ RunIdle
    /\ console = << >>
    /\ EvalIdle
    /\ tasks = NoTasks

NextGedi ==
    \/ BuildGedi
    \/ BuildGediMedian
    \/ BuildGediSamples

SpecGedi == InitGedi /\ [][NextGedi]_vars

\* --- section 4: the three indices of every composite
InitIndex ==
    /\ pc = "ndvi"
    /\ zeroDivision \in ZeroDivisions
    /\ image \in Composites
    /\ ndvi = NoImage
    /\ nbr = NoImage
    /\ ndmi = NoImage
    /\ stacked = NoImage
    /\ GediIdle
    /\ SplitIdle
    /\ RunIdle
    /\ console = << >>
    /\ EvalIdle
    /\ tasks = NoTasks

NextIndex ==
    \/ BuildNdvi
    \/ BuildNbr
    \/ BuildNdmi
    \/ BuildStacked

SpecIndex == InitIndex /\ [][NextIndex]_vars

\* --- sections 5 and 6: from the sample points to the two subsets.
\* What the rasters hold at a location of the region:
\*   unsampled  the median is masked at 25 m: no sample point
\*   full       a sample point; at 10 m the target and every band have a value
\*   noTarget   a sample point; at 10 m the target has no value
\*   someBands  a sample point; at 10 m B8 (and so each index) has no value
\*   noBands    a sample point; at 10 m no optical band has a value
\*   empty      a sample point; at 10 m nothing has a value
PointKinds == {"unsampled", "full", "noTarget", "someBands", "noBands", "empty"}

\* the sample points of a region described by k, with median heights h
gediSamplesFor(k, h) ==
    LET pts == SortedSeq({ p \in ROI : k[p] # "unsampled" })
    IN [n \in 1..Len(pts) |->
            Feature(pts[n], {pts[n]}, [b \in {"rh95"} |-> Val(h[pts[n]])])]

\* the median raster as read at 10 m
gediMedianFor(k, h) ==
    [b \in {"rh95"} |->
        [p \in Pixels |->
            IF p \in ROI /\ k[p] \in {"full", "someBands", "noBands"}
            THEN Val(h[p]) ELSE Masked]]

\* the heights of a single image
OneImageHeights == [p \in ROI |-> rawHeight(1, p)]

\* the composite
compositeFor(k) ==
    [b \in CompositeBands |->
        [p \in Pixels |->
            IF p \in ROI /\ (k[p] \in {"noBands", "empty"}
                             \/ (k[p] = "someBands" /\ b = "B8_median"))
            THEN Masked
            ELSE Val(IF b = "B8_median" THEN p + 1 ELSE 1)]]

\* the generators that differ under the default seed only
DefaultSeedPrngs ==
    { [s \in Seeds |-> IF s = DefaultSeed THEN r ELSE FixedPrng[s]] :
        r \in [ROI -> RandomTenths] }

InitSplit ==
    /\ pc = "stackedGEDI"
    /\ \E k \in [ROI -> PointKinds] :
          /\ gediSamples = gediSamplesFor(k, OneImageHeights)
          /\ gediMedian = gediMedianFor(k, OneImageHeights)
          /\ IndexDone(compositeFor(k))
    /\ rawCollection = << >>
    /\ gedi = << >>
    /\ SplitIdle
    /\ prng \in DefaultSeedPrngs
    /\ run = 1
    /\ firstRun = Null
    /\ console = << >>
    /\ EvalIdle
    /\ tasks = NoTasks

NextSplit ==
    \/ BuildStackedGEDI
    \/ BuildS2samples
    \/ BuildValidFeatures
    \/ BuildWithRandom
    \/ BuildTrainingSamples
    \/ BuildTestingSamples

SpecSplit == InitSplit /\ [][NextSplit]_vars

\* --- section 6 run twice over the same extracted samples
InitRerun ==
    /\ pc = "validFeatures"
    /\ \E k \in [ROI -> {"full", "noTarget"}] :
          /\ gediSamples = gediSamplesFor(k, OneImageHeights)
          /\ gediMedian = gediMedianFor(k, OneImageHeights)
          /\ IndexDone(compositeFor(k))
    /\ rawCollection = << >>
    /\ gedi = << >>
    /\ stackedGEDI = addBands(gediMedian, stacked)
    /\ S2samples = S2samplesOf(gediSamples, stackedGEDI)
    /\ validFeatures = << >>
    /\ withRandom = << >>
    /\ trainingSamples = << >>
    /\ testingSamples = << >>
    /\ prng \in [Seeds -> [ROI -> RandomTenths]]
    /\ run = 1
    /\ firstRun = Null
    /\ console = << >>
    /\ EvalIdle
    /\ tasks = NoTasks

NextRerun ==
    \/ BuildValidFeatures
    \/ BuildWithRandom
    \/ BuildTrainingSamples
    \/ BuildTestingSamples
    \/ Rerun

SpecRerun == InitRerun /\ [][NextRerun]_vars

\* the state sections 5 and 6 leave, for a region described by k with
\* median heights h, under the generator prng
AfterSplit(k, h) ==
    /\ gediSamples = gediSamplesFor(k, h)
    /\ gediMedian = gediMedianFor(k, h)
    /\ IndexDone(compositeFor(k))
    /\ rawCollection = << >>
    /\ gedi = << >>
    /\ stackedGEDI = addBands(gediMedian, stacked)
    /\ S2samples = S2samplesOf(gediSamples, stackedGEDI)
    /\ validFeatures = validFeaturesOf(S2samples)
    /\ withRandom = randomColumn(validFeatures, "random", randomColumnSeed(1))
    /\ trainingSamples = trainingSamplesOf(withRandom)
    /\ testingSamples = testingSamplesOf(withRandom)
    /\ console = << print("Training samples count:", Len(trainingSamples), FALSE),
                    print("Testing samples count:", Len(testingSamples), FALSE) >>

\* the observed heights of the evaluation slice
Observations == {4, 6}

\* --- section 7 and the evaluation: from the two subsets to RMSE and MAE
InitEval ==
    /\ pc = "training"
    /\ prng \in DefaultSeedPrngs
    /\ run = 1
    /\ firstRun = Null
    /\ \E k \in [ROI -> {"unsampled", "full", "someBands"}] :
       \E h \in [ROI -> Observations] : AfterSplit(k, h)
    /\ EvalIdle
    /\ tasks = submit(submit(NoTasks, "training"), "testing")

NextEval ==
    \/ BuildTraining
    \/ TrainRFmodel
    \/ BuildPrediction
    \/ BuildTesting
    \/ BuildTestPred
    \/ BuildRmse
    \/ BuildMae

SpecEval == InitEval /\ [][NextEval]_vars

\* --- the exports: the script from its first export to its end, over fully
\* valid rasters, and then the tasks it has created
InitExport ==
    /\ pc = "exportTraining"
    /\ prng \in DefaultSeedPrngs
    /\ run = 1
    /\ firstRun = Null
    /\ AfterSplit([p \in ROI |-> "full"], OneImageHeights)
    /\ EvalIdle
    /\ tasks = NoTasks

NextExport ==
    \/ SubmitTrainingExport
    \/ SubmitTestingExport
    \/ BuildTraining
    \/ TrainRFmodel
    \/ BuildPrediction
    \/ BuildTesting
    \/ BuildTestPred
    \/ BuildRmse
    \/ BuildMae
    \/ SubmitChmExport
    \/ BuildEvalSamples
    \/ SubmitEvalExport
    \/ RunTask
    \/ StartTask
    \/ CompleteTask
    \/ FailTask

SpecExport == InitExport /\ [][NextExport]_vars

(***************************************************************************)
(* C1                                                                      *)
(***************************************************************************)
\* an observation (image k of the raw collection at location p) that passes
\* both flag tests and lies in the date window
Passes(k, p) ==
    /\ rawCollection[k].bands["quality_flag"][p] = Val(1)
    /\ rawCollection[k].bands["degrade_flag"][p] = Val(0)
    /\ StartDate <= rawCollection[k].date
    /\ rawCollection[k].date < EndDate

PassingHeights(p) ==
    { rawHeight(k, p) : k \in { j \in 1..Len(rawCollection) : Passes(j, p) } }

\* C1: every observation left valid by the quality filter has
\* quality_flag = 1, degrade_flag = 0 and a date d with start <= d < end,
\* and the median height raster is taken from exactly those observations of
\* the region (it is masked where there is none).
C1_QualityFilter ==
    /\ \A k \in 1..Len(gedi) : \A p \in Pixels :
          gedi[k].bands["rh95"][p].mask = 1 => Passes(gedi[k].id, p)
    /\ pc \in {"gediSamples", "ndvi"} =>
          \A p \in ROI :
             /\ gediMedian["rh95"][p].mask = 1 <=> PassingHeights(p) # {}
             /\ gediMedian["rh95"][p].mask = 1 =>
                   gediMedian["rh95"][p] = Val(Median(PassingHeights(p)))

\* a run in which an image dated on the start date gave the median at a
\* location, an image dated on the end date with good flags there gave
\* nothing, and a location whose only in-window observation is degraded came
\* out masked and was not sampled
C1_Witness ==
    /\ pc = "ndvi"
    /\ \E k, j \in 1..Len(rawCollection) : \E p, p2 \in ROI :
          /\ rawCollection[k].date = StartDate
          /\ rawCollection[j].date = EndDate
          /\ rawCollection[j].bands["quality_flag"][p] = Val(1)
          /\ rawCollection[j].bands["degrade_flag"][p] = Val(0)
          /\ Passes(k, p)
          /\ gediMedian["rh95"][p] = Val(rawHeight(k, p))
          /\ rawCollection[k].bands["degrade_flag"][p2] = Val(1)
          /\ gediMedian["rh95"][p2].mask = 0
          /\ \A n \in 1..Len(gediSamples) : gediSamples[n].geometry # {p2}
          /\ \E n \in 1..Len(gediSamples) : gediSamples[n].geometry = {p}

(***************************************************************************)
(* C6                                                                      *)
(***************************************************************************)
\* the two bands an index is computed from
IndexA == "B8_median"

IndexB(name) ==
    CASE name = "ndvi" -> "B4_median"
      [] name = "nbr" -> "B11_median"
      [] OTHER -> "B12_median"

\* the indices computed so far
Computed ==
    [n \in {"ndvi", "nbr", "ndmi"} |->
        CASE n = "ndvi" -> ndvi [] n = "nbr" -> nbr [] OTHER -> ndmi]

\* location p has valid inputs of index n whose sum is zero
ZeroDenominator(n, p) ==
    /\ image[IndexA][p].mask = 1
    /\ image[IndexB(n)][p].mask = 1
    /\ image[IndexA][p].num + image[IndexB(n)][p].num = 0

\* C6: at every pixel where A + B = 0 the index is the no-data marker (a
\* masked pixel), never NaN and never an ordinary number.
C6_ZeroDenominatorIsNoData ==
    \A n \in {"ndvi", "nbr", "ndmi"} : \A p \in Pixels :
        (n \in DOMAIN Computed[n] /\ ZeroDenominator(n, p)) =>
            Computed[n][n][p] = Masked

(***************************************************************************)
(* C10, C2, C3, C4                                                         *)
(***************************************************************************)
\* the ids of the features of a collection
Ids(coll) == { coll[k].id : k \in 1..Len(coll) }

\* the bands of the extended raster that have a value at location p
BandsAt(p) == { b \in DOMAIN stackedGEDI : stackedGEDI[b][p].mask = 1 }

\* C10: the extraction keeps every sampled point: each point of gediSamples
\* yields exactly one Sample with the same geometry, whose properties are
\* the bands that have a value there (the others are missing), and the only
\* Samples the splitter's first step removes are those with a null target.
C10_ExtractionKeepsEveryPoint ==
    /\ pc \notin {"stackedGEDI", "S2samples"} =>
          /\ Len(S2samples) = Len(gediSamples)
          /\ \A n \in 1..Len(gediSamples) :
                /\ S2samples[n].geometry = gediSamples[n].geometry
                /\ DOMAIN S2samples[n].props = BandsAt(Loc(gediSamples[n]))
    /\ pc \notin {"stackedGEDI", "S2samples", "validFeatures"} =>
          Ids(validFeatures) =
              { gediSamples[n].id :
                  n \in { m \in 1..Len(gediSamples) :
                            stackedGEDI["rh95"][Loc(gediSamples[m])].mask = 1 } }

\* a run in which a point with no optical band at all and a point missing
\* one band were both kept past the null filter, and a point with no target
\* was kept by the extraction
C10_Witness ==
    /\ pc = "withRandom"
    /\ \E a, b, c \in 1..Len(S2samples) :
          /\ DOMAIN S2samples[a].props = {"rh95"}
          /\ S2samples[a].id \in Ids(validFeatures)
          /\ "B8_median" \notin DOMAIN S2samples[b].props
          /\ "B4_median" \in DOMAIN S2samples[b].props
          /\ S2samples[b].id \in Ids(validFeatures)
          /\ DOMAIN S2samples[c].props = {}
          /\ S2samples[c].id \notin Ids(validFeatures)

\* C2: no Sample whose target rh95 is null is in Training or in Testing.
C2_NoNullTarget ==
    \A coll \in {trainingSamples, testingSamples} : \A n \in 1..Len(coll) :
        /\ "rh95" \in DOMAIN coll[n].props
        /\ stackedGEDI["rh95"][Loc(coll[n])].mask = 1

\* a finished split of extracted Samples, one of them with a null target,
\* with both subsets non-empty
C2_Witness ==
    /\ pc = "exportTraining"
    /\ \E n \in 1..Len(S2samples) : "rh95" \notin DOMAIN S2samples[n].props
    /\ trainingSamples # << >>
    /\ testingSamples # << >>

\* the random value, in tenths, the generator gives feature id in this run
RandomOf(id) == prng[DefaultSeed][id]

\* C3: once both subsets are built, every Sample with a non-null target is
\* in Training iff its random value is < 0.7 and in Testing iff it is
\* >= 0.7; the two are disjoint and together are the non-null Samples.
C3_SplitIsPartition ==
    pc = "exportTraining" =>
        LET valid == { S2samples[n].id :
                         n \in { m \in 1..Len(S2samples) :
                                   "rh95" \in DOMAIN S2samples[m].props } }
        IN /\ \A id \in valid :
                 /\ id \in Ids(trainingSamples) <=> RandomOf(id) * SplitDen < SplitNum * 10
                 /\ id \in Ids(testingSamples) <=> RandomOf(id) * SplitDen >= SplitNum * 10
           /\ Ids(trainingSamples) \cap Ids(testingSamples) = {}
           /\ Ids(trainingSamples) \cup Ids(testingSamples) = valid
           /\ Len(trainingSamples) + Len(testingSamples) = Cardinality(valid)

\* a finished split with a Sample exactly on the split point in Testing and
\* a Sample below it in Training
C3_Witness ==
    /\ pc = "exportTraining"
    /\ \E n \in 1..Len(testingSamples) :
          testingSamples[n].props["random"] = Ratio(SplitNum, SplitDen)
    /\ \E n \in 1..Len(trainingSamples) :
          RandomOf(trainingSamples[n].id) * SplitDen < SplitNum * 10

Diagnostics == { n \in 1..Len(console) : console[n].error }

\* the evaluated pairs that come from Testing Sample s: the positions of
\* testPred holding s whose squared and absolute errors are those of s's own
\* prediction and observation
PairsOf(s) ==
    { n \in 1..Len(testPred) :
        /\ testPred[n].id = s.id
        /\ n <= Len(rmse)
        /\ n <= Len(mae)
        /\ "classification" \in DOMAIN testPred[n].props
        /\ rmse[n] = squaredError(<< s.props["rh95"], testPred[n].props["classification"] >>)
        /\ mae[n] = absoluteError(<< s.props["rh95"], testPred[n].props["classification"] >>) }

\* C5: once RMSE and MAE are computed, every Testing Sample has given
\* exactly one pair, both of whose values are its own, and the lists hold
\* nothing else; a Testing Sample that gave none is reported as an error.
C5_EveryTestingSamplePaired ==
    pc = "exportCHM" =>
        /\ \A n \in 1..Len(testingSamples) :
              \/ Cardinality(PairsOf(testingSamples[n])) = 1
              \/ Diagnostics # {}
        /\ Diagnostics = {} =>
              /\ Len(rmse) = Len(testingSamples)
              /\ Len(mae) = Len(testingSamples)

\* C9: for a non-empty set of pairs, RMSE = sqrt(r) and MAE = m are both
\* non-negative and RMSE >= MAE, that is r >= 0, m >= 0 and r >= m * m for
\* the rationals r = mean of the squared errors, m = mean of the absolute
\* errors.
C9_RmseAtLeastMae ==
    (pc = "exportCHM" /\ testPred # << >>) =>
        LET r == rmseVal.sqrtOf
            m == maeVal
        IN /\ r.den > 0
           /\ m.den > 0
           /\ r.num >= 0
           /\ m.num >= 0
           /\ r.num * m.den * m.den >= m.num * m.num * r.den

\* an evaluation over at least two pairs with unequal errors, one of them an
\* under-prediction, where RMSE is strictly above MAE
C9_Witness ==
    /\ pc = "exportCHM"
    /\ Len(rmse) >= 2
    /\ \E n \in 1..Len(testPred) :
          testPred[n].props["classification"].num < testPred[n].props["rh95"].num
    /\ maeVal.num > 0
    /\ rmseVal.sqrtOf.num * maeVal.den * maeVal.den
          > maeVal.num * maeVal.num * rmseVal.sqrtOf.den

\* C7: when no Sample remains after the quality and null-target filters,
\* this is reported before the model is fitted: the regressor is never
\* trained on zero rows and no model is applied.
C7_FailFastOnZeroSamples ==
    validFeatures = << >> =>
        /\ RFmodel = NoModel
        /\ prediction = NoImage
        /\ pc \notin {"training", "RFmodel"} => Diagnostics # {}

(***************************************************************************)
(* C8                                                                      *)
(***************************************************************************)
\* what is known of an artifact: the status of the task that writes it
Outcome(a) == IF ExportTask(a) \in DOMAIN tasks THEN tasks[ExportTask(a)] ELSE "NONE"

====
